---- MODULE Spec2Model ----
(***************************************************************************)
(* SoundClip: the React front end (src/src/App.tsx) together with the      *)
(* Tauri back end it drives.  The front end is translated from App.tsx.    *)
(* The back end (ProcessSupervisor, OutputParser, ReleaseResolver,         *)
(* BinaryInstaller) is not part of the sources at hand; its commands and   *)
(* events are modelled from the design document (spec.md, sections 3-7).   *)
(*                                                                         *)
(* Every `invoke` is asynchronous: a request travels to the back end, the  *)
(* back end handles it, and the response travels back and resumes the      *)
(* handler after its `await`.  Back-end events travel to the listeners     *)
(* through one ordered channel.  Responses and events are independent      *)
(* channels, so they reach the front end in either order.                  *)
(***************************************************************************)
EXTENDS Integers, Sequences, FiniteSets, TLC

----------------------------------------------------------------------------
(* Bounds of the model *)

\* number of download jobs the user starts (passes of handleDownload)
MaxJobs == 3
\* output lines the extraction tool prints per job
MaxLines == 1
\* cancel_download invocations outstanding at once
MaxCancels == 2
\* activations of handleCheckUpdate and handleInstallFfmpeg outstanding at once
MaxFlows == 2
\* clicks on Check Update
MaxChecks == 2
\* chunks of a downloaded artifact
FileSize == 2

----------------------------------------------------------------------------
(* Values *)

\* characters typed into the URL field: a blank and a non-blank
Space == " "
Urls == { <<>>, <<Space>>, <<Space, "a", Space>> }

\* percentages the tool prints
Percents == { 50, 100 }

\* version tags published by the release index; Null is an absent version
V1 == "2024.01.01"
V2 == "2024.06.10"
Versions == { V1, V2 }
Null == "null"

\* status-bar texts (a text and its interpolated part)
StReady == <<"Ready">>
StEnterUrl == <<"Enter a URL first">>
StDownloading == <<"Downloading...">>
StComplete == <<"Download complete">>
StCancelled == <<"Cancelled">>
StDownloadFailed(p) == <<"Download failed", p>>
StError(e) == <<"Error", e>>
StCancelError(e) == <<"Cancel error", e>>
StChecking == <<"Checking for updates...">>
StYtNotInstalled == <<"yt-dlp not installed - downloading...">>
StUpdatingYt(local, latest) == <<"Updating yt-dlp", local, latest>>
StFfmpegNotFound == <<"ffmpeg not found. Install it?">>
StUpToDate == <<"Everything is up to date">>
StUpdateCheckFailed(e) == <<"Update check failed", e>>
StInstallingFfmpeg == <<"Installing ffmpeg...">>
StFfmpegInstalled == <<"ffmpeg installed successfully">>
StFfmpegInstallFailed(e) == <<"ffmpeg install failed", e>>
StFfmpegSkipped == <<"ffmpeg installation skipped">>

\* a file of the managed-binary directory: n of FileSize chunks of version ver
NoFile == [ver |-> Null, n |-> 0]
Complete(f) == f.n = FileSize
Exists(f) == f # NoFile

File(v) == [ver |-> v, n |-> FileSize]

\* the download URL of the artifact of a release; NoUrl is an absent URL
UrlOf(v) == [release |-> v]
NoUrl == [release |-> Null]
Populated(u) == u # NoUrl

\* VersionInfo, FfmpegInfo and DepsStatus (App.tsx 6-27) before they are known
NoInfo == [local |-> Null, latest |-> Null, download_url |-> NoUrl,
           update_available |-> FALSE]
NoFfInfo == [installed |-> FALSE, version |-> Null]
NoDeps == [ytdlp |-> FALSE, ffmpeg |-> FALSE]

\* an activation slot of handleCheckUpdate ("check") or handleInstallFfmpeg
\* ("ffmpeg"): the await it is suspended at (pc), the state of that invocation
\* (st: req, run, ok, err), the value of showFfmpegPrompt its closure captured,
\* and the values the invocations resolved with
IdleFlow == [kind |-> "none", pc |-> "idle", st |-> "none", prompt |-> FALSE,
             err |-> "", info |-> NoInfo, ff |-> NoFfInfo, dp |-> NoDeps]

\* no installer run in progress
NoInst == [kind |-> "none", owner |-> 0, ver |-> Null, phase |-> "none",
           before |-> [ytdlp |-> NoFile, ffmpeg |-> NoFile, ffprobe |-> NoFile]]

\* a line of the log pane
LogLine(src, job, n, ver) == [src |-> src, job |-> job, n |-> n, ver |-> ver]

----------------------------------------------------------------------------
(* String.prototype.trim on a sequence of characters *)

IsSpace(c) == c = Space

RECURSIVE TrimLeft(_)
TrimLeft(s) ==
  IF s = <<>> THEN s
  ELSE IF IsSpace(Head(s)) THEN TrimLeft(Tail(s)) ELSE s

RECURSIVE TrimRight(_)
TrimRight(s) ==
  IF s = <<>> THEN s
  ELSE IF IsSpace(s[Len(s)]) THEN TrimRight(SubSeq(s, 1, Len(s) - 1)) ELSE s

Trim(s) == TrimRight(TrimLeft(s))

\* the guard of handleDownload without the trim
UrlMissing_NoTrim(u) == u = <<>>

\* `!url.trim()`
UrlMissing(u) == Trim(u) = <<>>

----------------------------------------------------------------------------
VARIABLES
  \* React state of App
  url, format, playlist, savePath, logs, progress, status, downloading, deps,
  updating, showFfmpegPrompt,
  \* responses of the two invocations made on mount
  mountSettings, mountDeps,
  \* invocations in flight
  startReqs, startErrs, cancelReqs, cancelResps,
  \* the event channel from the back end to the listeners
  events,
  \* activations of handleCheckUpdate and handleInstallFfmpeg
  flows,
  \* back end: settings file, supervisor
  saved, sup, curJob, child, cancellationFlag, produced, lastPct,
  \* back end: managed-binary directory (final paths, temporary download,
  \* staging directory) and the installer run in progress
  bin, tmp, staging, inst,
  \* history: jobs started by the UI, completion events emitted per job, jobs
  \* whose cancel was accepted, kills per job, jobs whose cancel response and
  \* whose completion event the UI has handled
  uiJob, completions, cancelAccepted, kills, okHandled, doneHandled,
  \* history: clicks on Check Update
  checks

uiVars == <<url, format, playlist, savePath, logs, progress, status, downloading,
            deps, updating, showFfmpegPrompt>>
mountVars == <<mountSettings, mountDeps>>
callVars == <<startReqs, startErrs, cancelReqs, cancelResps>>
supVars == <<sup, curJob, child, cancellationFlag, produced, lastPct>>
histVars == <<uiJob, completions, cancelAccepted, kills, okHandled, doneHandled,
              checks>>
updVars == <<flows, bin, tmp, staging, inst>>
vars == <<uiVars, mountVars, callVars, events, saved, updVars, supVars, histVars>>

Jobs == 1..MaxJobs

CurrentSettings == [save_path |-> savePath, audio_format |-> format,
                    playlist_mode |-> playlist]

\* a start call no longer untouched: something else changed what the UI shows
Dirty(calls) == [i \in DOMAIN calls |-> [calls[i] EXCEPT !.clean = FALSE]]

\* sequence s without its i-th element
Without(s, i) == SubSeq(s, 1, i - 1) \o SubSeq(s, i + 1, Len(s))

----------------------------------------------------------------------------
Init ==
  /\ url = <<>> /\ format = "best" /\ playlist = FALSE /\ savePath = ""
  /\ logs = <<>> /\ progress = 0 /\ status = StReady /\ downloading = FALSE
  /\ deps = [ytdlp |-> TRUE, ffmpeg |-> TRUE]
  /\ updating = FALSE /\ showFfmpegPrompt = FALSE
  /\ saved = [save_path |-> "/music", audio_format |-> "mp3", playlist_mode |-> FALSE]
  /\ \E yt \in {NoFile, File(V1)}, ff \in {NoFile, File(V1)} :
       bin = [ytdlp |-> yt, ffmpeg |-> ff, ffprobe |-> ff]
  /\ tmp = NoFile /\ staging = {} /\ inst = NoInst
  /\ flows = [f \in 1..MaxFlows |-> IdleFlow]
  /\ mountSettings = <<saved>>
  /\ mountDeps = <<[st |-> "req", ytdlp |-> FALSE, ffmpeg |-> FALSE]>>
  /\ startReqs = <<>> /\ startErrs = <<>> /\ cancelReqs = 0 /\ cancelResps = <<>>
  /\ events = <<>>
  /\ sup = "Idle" /\ curJob = 0 /\ child = "none" /\ cancellationFlag = FALSE
  /\ produced = 0 /\ lastPct = 0
  /\ uiJob = 0
  /\ completions = [j \in Jobs |-> <<>>]
  /\ cancelAccepted = {} /\ kills = [j \in Jobs |-> 0]
  /\ okHandled = {} /\ doneHandled = {}
  /\ checks = 0

----------------------------------------------------------------------------
(* Mount: get_settings and check_dependencies (App.tsx 58-65) *)

\* get_settings resolves: the three setters of lines 60-62
LoadSettings ==
  /\ mountSettings # <<>>
  /\ savePath' = Head(mountSettings).save_path
  /\ format' = Head(mountSettings).audio_format
  /\ playlist' = Head(mountSettings).playlist_mode
  /\ mountSettings' = <<>>
  /\ UNCHANGED <<url, logs, progress, status, downloading, deps, updating,
                 showFfmpegPrompt, mountDeps, callVars, events, saved, updVars,
                 supVars, histVars>>

\* back end: check_dependencies reports which managed binaries exist
CheckDependencies ==
  /\ mountDeps # <<>> /\ Head(mountDeps).st = "req"
  /\ mountDeps' = <<[st |-> "resp", ytdlp |-> Exists(bin.ytdlp),
                     ffmpeg |-> Exists(bin.ffmpeg)]>>
  /\ UNCHANGED <<uiVars, mountSettings, callVars, events, saved, updVars, supVars,
                 histVars>>

\* refreshDeps of the mount effect resolves: setDeps
SetDeps ==
  /\ mountDeps # <<>> /\ Head(mountDeps).st = "resp"
  /\ deps' = [ytdlp |-> Head(mountDeps).ytdlp, ffmpeg |-> Head(mountDeps).ffmpeg]
  /\ mountDeps' = <<>>
  /\ UNCHANGED <<url, format, playlist, savePath, logs, progress, status,
                 downloading, updating, showFfmpegPrompt, mountSettings,
                 callVars, events, saved, updVars, supVars, histVars>>

----------------------------------------------------------------------------
(* The URL field (disabled while downloading) *)

\* onChange of the URL input
SetUrl ==
  /\ ~downloading
  /\ \E u \in Urls : u # url /\ url' = u
  /\ UNCHANGED <<format, playlist, savePath, logs, progress, status, downloading,
                 deps, updating, showFfmpegPrompt, mountVars, callVars, events,
                 saved, updVars, supVars, histVars>>

----------------------------------------------------------------------------
(* handleDownload (App.tsx 119-141) *)

\* a click on Download with no URL: lines 120-123
HandleDownloadNoUrl ==
  /\ ~downloading /\ deps.ytdlp
  /\ UrlMissing(url)
  /\ status' = StEnterUrl
  /\ UNCHANGED <<url, format, playlist, savePath, logs, progress, downloading,
                 deps, updating, showFfmpegPrompt, mountVars, callVars, events,
                 saved, updVars, supVars, histVars>>

\* a click on Download: lines 124-136, up to the await
HandleDownload ==
  /\ ~downloading /\ deps.ytdlp
  /\ ~UrlMissing(url)
  /\ uiJob < MaxJobs
  /\ logs' = <<>>
  /\ progress' = 0
  /\ downloading' = TRUE
  /\ status' = StDownloading
  /\ saved' = CurrentSettings
  /\ uiJob' = uiJob + 1
  /\ startReqs' = Append(Dirty(startReqs),
                         [job |-> uiJob + 1, url |-> Trim(url), err |-> "",
                          issued |-> IF sup = "Running" THEN curJob ELSE 0,
                          during |-> 0,
                          pre |-> [logs |-> logs, progress |-> progress,
                                   downloading |-> downloading],
                          clean |-> TRUE])
  /\ startErrs' = Dirty(startErrs)
  /\ UNCHANGED <<url, format, playlist, savePath, deps, updating,
                 showFfmpegPrompt, mountVars, cancelReqs, cancelResps, events,
                 updVars, supVars, completions, cancelAccepted, kills, okHandled,
                 doneHandled, checks>>

\* the catch block of handleDownload with the downloading flag left alone
StartRejected_KeepFlag(i) ==
  /\ status' = StError(startErrs[i].err)
  /\ startErrs' = Dirty(Without(startErrs, i))
  /\ startReqs' = Dirty(startReqs)
  /\ UNCHANGED <<url, format, playlist, savePath, logs, progress, downloading,
                 deps, updating, showFfmpegPrompt, mountVars, cancelReqs,
                 cancelResps, events, saved, updVars, supVars, histVars>>

\* start_download rejects: the catch block, lines 137-140
StartRejected(i) ==
  /\ status' = StError(startErrs[i].err)
  /\ downloading' = FALSE
  /\ startErrs' = Dirty(Without(startErrs, i))
  /\ startReqs' = Dirty(startReqs)
  /\ UNCHANGED <<url, format, playlist, savePath, logs, progress, deps, updating,
                 showFfmpegPrompt, mountVars, cancelReqs, cancelResps, events,
                 saved, updVars, supVars, histVars>>

HandleDownloadCatch == \E i \in DOMAIN startErrs : StartRejected(i)

----------------------------------------------------------------------------
(* handleCancel (App.tsx 143-151) *)

\* a click on Cancel: line 145, up to the await
HandleCancel ==
  /\ downloading
  /\ cancelReqs + Len(cancelResps) < MaxCancels
  /\ cancelReqs' = cancelReqs + 1
  /\ UNCHANGED <<uiVars, mountVars, startReqs, startErrs, cancelResps, events,
                 saved, updVars, supVars, histVars>>

\* cancel_download resolves: lines 146-147
CancelResolved(i) ==
  /\ cancelResps[i].res = "ok"
  /\ status' = StCancelled
  /\ downloading' = FALSE
  /\ cancelResps' = Without(cancelResps, i)
  /\ okHandled' = okHandled \cup {cancelResps[i].job}
  /\ startReqs' = Dirty(startReqs) /\ startErrs' = Dirty(startErrs)
  /\ UNCHANGED <<url, format, playlist, savePath, logs, progress, deps, updating,
                 showFfmpegPrompt, mountVars, cancelReqs, events, saved, updVars,
                 supVars, uiJob, completions, cancelAccepted, kills, doneHandled, checks>>

\* the catch block of handleCancel written like that of handleDownload
CancelRejected_ClearFlag(i) ==
  /\ cancelResps[i].res # "ok"
  /\ status' = StCancelError(cancelResps[i].res)
  /\ downloading' = FALSE
  /\ cancelResps' = Without(cancelResps, i)
  /\ UNCHANGED <<url, format, playlist, savePath, logs, progress, deps, updating,
                 showFfmpegPrompt, mountVars, startReqs, startErrs, cancelReqs,
                 events, saved, updVars, supVars, histVars>>

\* cancel_download rejects: the catch block, lines 148-150
CancelRejected(i) ==
  /\ cancelResps[i].res # "ok"
  /\ status' = StCancelError(cancelResps[i].res)
  /\ cancelResps' = Without(cancelResps, i)
  /\ UNCHANGED <<url, format, playlist, savePath, logs, progress, downloading,
                 deps, updating, showFfmpegPrompt, mountVars, startReqs,
                 startErrs, cancelReqs, events, saved, updVars, supVars, histVars>>

HandleCancelThen == \E i \in DOMAIN cancelResps : CancelResolved(i)

HandleCancelCatch == \E i \in DOMAIN cancelResps : CancelRejected(i)

----------------------------------------------------------------------------
(* The listeners (App.tsx 68-92); the channel delivers in order *)

\* download-log and update-log: lines 70-72 and 85-87
OnLog ==
  /\ events # <<>>
  /\ Head(events).type \in {"download-log", "update-log"}
  /\ logs' = Append(logs, Head(events).line)
  /\ events' = Tail(events)
  /\ startReqs' = Dirty(startReqs) /\ startErrs' = Dirty(startErrs)
  /\ UNCHANGED <<url, format, playlist, savePath, progress, status, downloading,
                 deps, updating, showFfmpegPrompt, mountVars, cancelReqs,
                 cancelResps, saved, updVars, supVars, histVars>>

\* download-progress: lines 73-75
OnDownloadProgress ==
  /\ events # <<>>
  /\ Head(events).type = "download-progress"
  /\ progress' = Head(events).pct
  /\ events' = Tail(events)
  /\ startReqs' = Dirty(startReqs) /\ startErrs' = Dirty(startErrs)
  /\ UNCHANGED <<url, format, playlist, savePath, logs, status, downloading,
                 deps, updating, showFfmpegPrompt, mountVars, cancelReqs,
                 cancelResps, saved, updVars, supVars, histVars>>

\* the download-complete listener without its setDownloading(false)
OnDownloadComplete_KeepFlag ==
  /\ events # <<>>
  /\ Head(events).type = "download-complete"
  /\ IF Head(events).outcome = "success"
     THEN status' = StComplete /\ progress' = 100
     ELSE status' = StDownloadFailed(Head(events).outcome) /\ progress' = progress
  /\ events' = Tail(events)
  /\ doneHandled' = doneHandled \cup {Head(events).job}
  /\ startReqs' = Dirty(startReqs) /\ startErrs' = Dirty(startErrs)
  /\ UNCHANGED <<url, format, playlist, savePath, logs, downloading, deps,
                 updating, showFfmpegPrompt, mountVars, cancelReqs, cancelResps,
                 saved, updVars, supVars, uiJob, completions, cancelAccepted,
                 kills, okHandled, checks>>

\* download-complete: lines 76-84
OnDownloadComplete ==
  /\ events # <<>>
  /\ Head(events).type = "download-complete"
  /\ downloading' = FALSE
  /\ IF Head(events).outcome = "success"
     THEN status' = StComplete /\ progress' = 100
     ELSE status' = StDownloadFailed(Head(events).outcome) /\ progress' = progress
  /\ events' = Tail(events)
  /\ doneHandled' = doneHandled \cup {Head(events).job}
  /\ startReqs' = Dirty(startReqs) /\ startErrs' = Dirty(startErrs)
  /\ UNCHANGED <<url, format, playlist, savePath, logs, deps, updating,
                 showFfmpegPrompt, mountVars, cancelReqs, cancelResps, saved,
                 updVars, supVars, uiJob, completions, cancelAccepted, kills,
                 okHandled, checks>>

----------------------------------------------------------------------------
(* Back end: ProcessSupervisor and OutputParser (spec.md 4.2, 4.3) *)

\* the rejection of a start call, with the job that was Running when it was
\* rejected (0 if none)
StartError(req, e) ==
  [req EXCEPT !.err = e, !.during = IF sup = "Running" THEN curJob ELSE 0]

\* start(request) in a state other than Idle
StartAlreadyRunning ==
  /\ startReqs # <<>>
  /\ sup # "Idle"
  /\ startErrs' = Append(startErrs, StartError(Head(startReqs), "AlreadyRunning"))
  /\ startReqs' = Tail(startReqs)
  /\ UNCHANGED <<uiVars, mountVars, cancelReqs, cancelResps, events, saved, updVars,
                 supVars, histVars>>

\* start(request) without the extraction tool
StartDependencyMissing ==
  /\ startReqs # <<>>
  /\ sup = "Idle"
  /\ ~Exists(bin.ytdlp)
  /\ startErrs' = Append(startErrs, StartError(Head(startReqs), "DependencyMissing"))
  /\ startReqs' = Tail(startReqs)
  /\ UNCHANGED <<uiVars, mountVars, cancelReqs, cancelResps, events, saved, updVars,
                 supVars, histVars>>

\* start(request) succeeds: Idle -> Starting -> Running, the slot is taken and
\* the child is spawned
StartAccepted ==
  /\ startReqs # <<>>
  /\ sup = "Idle"
  /\ Exists(bin.ytdlp)
  /\ sup' = "Running"
  /\ curJob' = Head(startReqs).job
  /\ child' = "alive"
  /\ cancellationFlag' = FALSE
  /\ produced' = 0 /\ lastPct' = 0
  /\ startReqs' = Tail(startReqs)
  /\ UNCHANGED <<uiVars, mountVars, startErrs, cancelReqs, cancelResps, events,
                 saved, updVars, histVars>>

\* start(request) fails to spawn the child: Idle -> Starting -> Idle
StartSpawnFailed ==
  /\ startReqs # <<>>
  /\ sup = "Idle"
  /\ Exists(bin.ytdlp)
  /\ startErrs' = Append(startErrs, StartError(Head(startReqs), "ProcessSpawnFailed"))
  /\ startReqs' = Tail(startReqs)
  /\ UNCHANGED <<uiVars, mountVars, cancelReqs, cancelResps, events, saved, updVars,
                 supVars, histVars>>

\* the events the parser makes of one output line: a progress event when the
\* line carries a percentage, and the line itself in every case
ParseLine(job, n, pct) ==
  (IF pct \in Percents
   THEN <<[type |-> "download-progress", job |-> job, pct |-> pct]>>
   ELSE <<>>)
  \o <<[type |-> "download-log", job |-> job, line |-> LogLine("download", job, n, Null)]>>

\* the child prints a line; its percentage, if any, is not below the last one
ProduceLine ==
  /\ sup = "Running" /\ child = "alive"
  /\ produced < MaxLines
  /\ \E pct \in Percents \cup {-1} :
       /\ pct \in Percents => pct >= lastPct
       /\ events' = events \o ParseLine(curJob, produced + 1, pct)
       /\ lastPct' = IF pct \in Percents THEN pct ELSE lastPct
  /\ produced' = produced + 1
  /\ UNCHANGED <<uiVars, mountVars, callVars, saved, updVars, sup, curJob, child,
                 cancellationFlag, histVars>>

\* the child exits by itself, with code 0 or not
ChildExit ==
  /\ child = "alive"
  /\ \E c \in {"exit0", "exit1"} : child' = c
  /\ UNCHANGED <<uiVars, mountVars, callVars, events, saved, updVars, sup, curJob,
                 cancellationFlag, produced, lastPct, histVars>>

\* cancel() in a state other than Running
CancelNotRunning ==
  /\ cancelReqs > 0
  /\ sup # "Running"
  /\ cancelReqs' = cancelReqs - 1
  /\ cancelResps' = Append(cancelResps, [res |-> "NotRunning", job |-> 0])
  /\ UNCHANGED <<uiVars, mountVars, startReqs, startErrs, events, saved, updVars,
                 supVars, histVars>>

\* cancel() while Running: the flag is set, the process tree is force-stopped
\* if it still lives, Running -> Cancelled
CancelAccepted ==
  /\ cancelReqs > 0
  /\ sup = "Running"
  /\ cancelReqs' = cancelReqs - 1
  /\ cancelResps' = Append(cancelResps, [res |-> "ok", job |-> curJob])
  /\ cancellationFlag' = TRUE
  /\ sup' = "Cancelled"
  /\ child' = IF child = "alive" THEN "exit1" ELSE child
  /\ kills' = IF child = "alive" THEN [kills EXCEPT ![curJob] = @ + 1] ELSE kills
  /\ cancelAccepted' = cancelAccepted \cup {curJob}
  /\ UNCHANGED <<uiVars, mountVars, startReqs, startErrs, events, saved, updVars,
                 curJob, produced, lastPct, uiJob, completions, okHandled,
                 doneHandled, checks>>

\* exit handling that looks at the exit code alone
Outcome_ByCode(flag, c) == IF c = "exit0" THEN "success" ELSE "1"

\* exit handling: cancelled if a cancellation was requested, else by exit code
Outcome(flag, c) ==
  IF flag THEN "cancelled" ELSE IF c = "exit0" THEN "success" ELSE "1"

\* the exit is handled: the CompletionEvent of the job is emitted and the
\* JobHandle destroyed, {Running, Cancelled} -> {Completed, Failed, Cancelled} -> Idle
ExitHandling ==
  /\ sup \in {"Running", "Cancelled"}
  /\ child \in {"exit0", "exit1"}
  /\ LET o == Outcome(cancellationFlag, child) IN
       /\ events' = Append(events, [type |-> "download-complete", job |-> curJob,
                                    outcome |-> o])
       /\ completions' = [completions EXCEPT ![curJob] = Append(@, o)]
  /\ sup' = "Idle"
  /\ curJob' = 0
  /\ child' = "none"
  /\ cancellationFlag' = FALSE
  /\ produced' = 0 /\ lastPct' = 0
  /\ UNCHANGED <<uiVars, mountVars, callVars, saved, updVars, uiJob, cancelAccepted,
                 kills, okHandled, doneHandled, checks>>

----------------------------------------------------------------------------
(* The download side: the form, handleDownload, handleCancel, the listeners  *)
(* and the supervisor.  The two responses of the mount effect stay in flight, *)
(* so deps still holds its initial value {ytdlp: true, ffmpeg: true}.  The    *)
(* transcoding tool plays no part here and is taken as installed.             *)

InitJob == Init /\ Exists(bin.ffmpeg)

NextJob ==
  \/ SetUrl
  \/ HandleDownloadNoUrl \/ HandleDownload \/ HandleDownloadCatch
  \/ HandleCancel \/ HandleCancelThen \/ HandleCancelCatch
  \/ OnLog \/ OnDownloadProgress \/ OnDownloadComplete
  \/ StartAlreadyRunning \/ StartDependencyMissing \/ StartAccepted
  \/ StartSpawnFailed \/ ProduceLine \/ ChildExit
  \/ CancelNotRunning \/ CancelAccepted \/ ExitHandling

SpecJob == InitJob /\ [][NextJob]_vars

\* The download side with a child that prints nothing: termination of a job
\* does not depend on its output, whose events only precede the completion
\* in the channel.
NextJobQuiet ==
  \/ SetUrl
  \/ HandleDownloadNoUrl \/ HandleDownload \/ HandleDownloadCatch
  \/ HandleCancel \/ HandleCancelThen \/ HandleCancelCatch
  \/ OnDownloadComplete
  \/ StartAlreadyRunning \/ StartDependencyMissing \/ StartAccepted
  \/ StartSpawnFailed \/ ChildExit
  \/ CancelNotRunning \/ CancelAccepted \/ ExitHandling

\* Scheduling of the download side: the back end handles every command it
\* receives, the child exits, the exit is handled, and every response and
\* event in flight is delivered to the front end.  The user's clicks are
\* under no obligation.
FairJob ==
  /\ WF_vars(StartAlreadyRunning \/ StartDependencyMissing \/ StartAccepted
             \/ StartSpawnFailed)
  /\ WF_vars(CancelNotRunning \/ CancelAccepted)
  /\ WF_vars(ChildExit)
  /\ WF_vars(ExitHandling)
  /\ WF_vars(OnDownloadComplete)
  /\ WF_vars(HandleDownloadCatch)
  /\ WF_vars(HandleCancelThen)
  /\ WF_vars(HandleCancelCatch)

SpecJobFair == InitJob /\ [][NextJobQuiet]_vars /\ FairJob

----------------------------------------------------------------------------
(* Properties of the download side *)

\* u has no character other than blanks
Blank(u) == \A i \in DOMAIN u : u[i] = Space

\* the start call of job j among the rejected ones is the one consumed by this step
Consumed(i) ==
  /\ Len(startErrs') = Len(startErrs) - 1
  /\ \A k \in DOMAIN startErrs' : startErrs'[k].job # startErrs[i].job

\* C1: for a job cancelled while Running, once the UI has handled both the
\* cancel response and the download-complete event, in whichever order, the
\* status bar reads "Cancelled" and not "Download failed (...)".
C1_CancelNeverFailure ==
  [][\A j \in Jobs :
       (/\ j \in okHandled' /\ j \in doneHandled'
        /\ ~(j \in okHandled /\ j \in doneHandled))
       => status' = StCancelled]_vars

\* C2: a job emits at most one CompletionEvent, and once cancel() was accepted
\* for it that event is "cancelled" whatever the exit code; "success" and a
\* failure code are emitted only for jobs no cancel was accepted for.
C2_CancelledOutcome ==
  \A j \in Jobs :
    /\ Len(completions[j]) <= 1
    /\ (j \in cancelAccepted /\ completions[j] # <<>>)
         => completions[j][1] = "cancelled"
    /\ (completions[j] # <<>> /\ completions[j][1] \in {"success", "1"})
         => j \notin cancelAccepted

\* C2 witness: a cancel accepted after the child had exited by itself (no kill),
\* reported as cancelled
C2_Witness ==
  \E j \in Jobs :
    j \in cancelAccepted /\ kills[j] = 0 /\ completions[j] = <<"cancelled">>

\* C3: a start() handled while a job is Running is rejected with AlreadyRunning
\* and leaves the supervisor as it was; and when a start was issued and
\* rejected while one and the same job was Running, then once the UI has
\* handled the rejection, with nothing else having touched the display in
\* between, the downloading flag, the log list and the progress are what they
\* were before the click.
C3_RejectedStartUnaltered ==
  [][/\ (startReqs # <<>> /\ sup = "Running" /\ startReqs' = Tail(startReqs))
          => /\ Len(startErrs') = Len(startErrs) + 1
             /\ startErrs'[Len(startErrs')].err = "AlreadyRunning"
             /\ UNCHANGED supVars
     /\ \A i \in DOMAIN startErrs :
          (/\ startErrs[i].err = "AlreadyRunning"
           /\ startErrs[i].during # 0 /\ startErrs[i].issued = startErrs[i].during
           /\ startErrs[i].clean /\ Consumed(i))
          => /\ downloading' = startErrs[i].pre.downloading
             /\ logs' = startErrs[i].pre.logs
             /\ progress' = startErrs[i].pre.progress]_vars

\* C4: while the UI's current job is open (from its handleDownload to its
\* download-complete), the progress shown never decreases and stays in 0..100,
\* and it is 100 once the job's download-complete "success" is handled.
C4_ProgressMonotone ==
  [][/\ (uiJob > 0 /\ uiJob' = uiJob /\ uiJob \notin doneHandled)
          => (progress' >= progress /\ progress' \in 0..100)
     /\ \A j \in Jobs :
          (j \in doneHandled' /\ j \notin doneHandled /\ completions[j] = <<"success">>)
          => progress' = 100]_vars

\* the log events of job j still in the channel
PendingLogs(j) ==
  Cardinality({k \in DOMAIN events :
                 events[k].type = "download-log" /\ events[k].job = j})

\* the log lines of the running job that the listener has received
ReceivedLogs ==
  [n \in 1..(produced - PendingLogs(curJob)) |->
     LogLine("download", curJob, n, Null)]

\* C5: while a job is live the log pane shows exactly the log events received
\* for it, in order; and once the job's download-complete has been handled no
\* event of that job is left to change the logs or the progress.
C5_EventsInOrder ==
  /\ sup = "Running" => logs = ReceivedLogs
  /\ \A k \in DOMAIN events : events[k].job \notin doneHandled

\* C7: cancel() handled while no job is Running answers NotRunning and leaves
\* the supervisor, the child, the event channel and the history of
\* completions and kills alone; the UI, on that answer, changes the status
\* text only.
C7_CancelNotRunning ==
  [][/\ (cancelReqs' = cancelReqs - 1 /\ sup # "Running")
          => /\ Len(cancelResps') = Len(cancelResps) + 1
             /\ cancelResps'[Len(cancelResps')].res = "NotRunning"
             /\ UNCHANGED <<supVars, events, completions, kills, cancelAccepted, checks>>
     /\ \A i \in DOMAIN cancelResps :
          (cancelResps[i].res = "NotRunning" /\ cancelResps' = Without(cancelResps, i))
          => /\ UNCHANGED <<downloading, progress, logs>>
             /\ status' = StCancelError("NotRunning")]_vars

\* C7 witness: the rejection shown while the UI still believes it is downloading
C7_Witness ==
  status = StCancelError("NotRunning") /\ downloading /\ sup = "Idle"

\* C8: start_download is never in flight with a URL that is empty or all
\* blanks; a click with such a URL sets the status to "Enter a URL first" and
\* changes nothing else; and a start request is only ever added for a URL
\* with a non-blank character.
C8_EmptyUrlRejected ==
  /\ [](\A i \in DOMAIN startReqs : ~Blank(startReqs[i].url))
  /\ [][(status' = StEnterUrl /\ status # StEnterUrl)
          => (Blank(url) /\
              UNCHANGED <<url, format, playlist, savePath, logs, progress,
                          downloading, deps, updating, showFfmpegPrompt,
                          mountVars, callVars, events, saved, updVars, supVars,
                          histVars>>)]_vars
  /\ [][Len(startReqs') > Len(startReqs) => ~Blank(url)]_vars

\* C8 witness: a URL of blanks only was rejected, before anything was started
\* or saved
C8_Witness ==
  /\ status = StEnterUrl /\ url = <<Space>>
  /\ startReqs = <<>> /\ uiJob = 0 /\ ~downloading
  /\ saved # CurrentSettings

----------------------------------------------------------------------------
(* handleCheckUpdate (App.tsx 153-197) *)

Slots == 1..MaxFlows

Free(f) == flows[f].kind = "none" /\ \A g \in Slots : g < f => flows[g].kind # "none"

Await(f, pc) == flows[f].pc = pc /\ flows[f].st = "ok"

\* the flow of slot f invokes the next command
Invoke(f, pc) == [flows EXCEPT ![f].pc = pc, ![f].st = "req"]

\* a click on Check Update: lines 154-160, up to the first await
HandleCheckUpdate ==
  /\ ~downloading /\ ~updating
  /\ checks < MaxChecks
  /\ checks' = checks + 1
  /\ \E f \in Slots :
       /\ Free(f)
       /\ flows' = [flows EXCEPT ![f] = [IdleFlow EXCEPT !.kind = "check",
                                           !.pc = "check", !.st = "req",
                                           !.prompt = showFfmpegPrompt]]
  /\ updating' = TRUE
  /\ logs' = <<>>
  /\ status' = StChecking
  /\ startReqs' = Dirty(startReqs) /\ startErrs' = Dirty(startErrs)
  /\ UNCHANGED <<url, format, playlist, savePath, progress, downloading, deps,
                 showFfmpegPrompt, mountVars, cancelReqs, cancelResps, events,
                 saved, bin, tmp, staging, inst, supVars, uiJob, completions,
                 cancelAccepted, kills, okHandled, doneHandled>>

\* lines 161-176 with update_ytdlp invoked for an available update only, not
\* for an absent local version
OnYtInfo_OnlyWhenAvailable(f) ==
  /\ Await(f, "check")
  /\ LET i == flows[f].info
         next == IF Populated(i.download_url) THEN "update" ELSE "ffcheck"
     IN  IF i.local = Null
         THEN /\ status' = StYtNotInstalled
              /\ flows' = Invoke(f, "ffcheck")
              /\ logs' = logs
         ELSE IF i.update_available
         THEN /\ status' = StUpdatingYt(i.local, i.latest)
              /\ flows' = Invoke(f, next)
              /\ logs' = logs
         ELSE /\ logs' = Append(logs, LogLine("yt-dlp is up to date", 0, 0, i.local))
              /\ flows' = Invoke(f, "ffcheck")
              /\ status' = status
  /\ startReqs' = Dirty(startReqs) /\ startErrs' = Dirty(startErrs)
  /\ UNCHANGED <<url, format, playlist, savePath, progress, downloading, deps,
                 updating, showFfmpegPrompt, mountVars, cancelReqs, cancelResps,
                 events, saved, bin, tmp, staging, inst, supVars, histVars>>

\* check_ytdlp_update resolves: lines 161-176, up to the next await
OnYtInfo(f) ==
  /\ Await(f, "check")
  /\ LET i == flows[f].info
         next == IF Populated(i.download_url) THEN "update" ELSE "ffcheck"
     IN  IF i.local = Null
         THEN /\ status' = StYtNotInstalled
              /\ flows' = Invoke(f, next)
              /\ logs' = logs
         ELSE IF i.update_available
         THEN /\ status' = StUpdatingYt(i.local, i.latest)
              /\ flows' = Invoke(f, next)
              /\ logs' = logs
         ELSE /\ logs' = Append(logs, LogLine("yt-dlp is up to date", 0, 0, i.local))
              /\ flows' = Invoke(f, "ffcheck")
              /\ status' = status
  /\ startReqs' = Dirty(startReqs) /\ startErrs' = Dirty(startErrs)
  /\ UNCHANGED <<url, format, playlist, savePath, progress, downloading, deps,
                 updating, showFfmpegPrompt, mountVars, cancelReqs, cancelResps,
                 events, saved, bin, tmp, staging, inst, supVars, histVars>>

\* update_ytdlp resolves (lines 164 and 169): line 176, up to the next await
OnYtdlpUpdated(f) ==
  /\ Await(f, "update")
  /\ flows' = Invoke(f, "ffcheck")
  /\ UNCHANGED <<uiVars, mountVars, callVars, events, saved, bin, tmp, staging,
                 inst, supVars, histVars>>

\* check_ffmpeg resolves: lines 177-189, up to the next await
OnFfInfo(f) ==
  /\ Await(f, "ffcheck")
  /\ IF ~flows[f].ff.installed
     THEN /\ showFfmpegPrompt' = TRUE
          /\ status' = StFfmpegNotFound
          /\ logs' = logs
     ELSE /\ logs' = Append(logs, LogLine("ffmpeg is installed", 0, 0, flows[f].ff.version))
          /\ status' = StUpToDate
          /\ showFfmpegPrompt' = showFfmpegPrompt
  /\ flows' = Invoke(f, "refresh")
  /\ startReqs' = Dirty(startReqs) /\ startErrs' = Dirty(startErrs)
  /\ UNCHANGED <<url, format, playlist, savePath, progress, downloading, deps,
                 updating, mountVars, cancelReqs, cancelResps, events, saved,
                 bin, tmp, staging, inst, supVars, histVars>>

\* the value the finally block leaves in updating (lines 192-196 and 208-210):
\* in handleCheckUpdate showFfmpegPrompt is the value captured when the handler
\* was created, that is, at the click
Finally(f) == IF flows[f].kind = "check" /\ flows[f].prompt THEN updating ELSE FALSE

\* refreshDeps resolves (lines 189 and 205): setDeps, then the finally block
OnRefreshed(f) ==
  /\ Await(f, "refresh")
  /\ deps' = flows[f].dp
  /\ updating' = Finally(f)
  /\ flows' = [flows EXCEPT ![f] = IdleFlow]
  /\ UNCHANGED <<url, format, playlist, savePath, logs, progress, status,
                 downloading, showFfmpegPrompt, mountVars, callVars, events,
                 saved, bin, tmp, staging, inst, supVars, histVars>>

\* an invocation of the flow rejects: the catch block (lines 190-191 and
\* 206-207), then the finally block
OnFlowRejected(f) ==
  /\ flows[f].st = "err"
  /\ status' = IF flows[f].kind = "check"
               THEN StUpdateCheckFailed(flows[f].err)
               ELSE StFfmpegInstallFailed(flows[f].err)
  /\ updating' = Finally(f)
  /\ flows' = [flows EXCEPT ![f] = IdleFlow]
  /\ UNCHANGED <<url, format, playlist, savePath, logs, progress, downloading,
                 deps, showFfmpegPrompt, mountVars, callVars, events, saved,
                 bin, tmp, staging, inst, supVars, histVars>>

----------------------------------------------------------------------------
(* handleInstallFfmpeg and handleDeclineFfmpeg (App.tsx 199-217) *)

\* a click on Install ffmpeg: lines 200-203, up to the await
HandleInstallFfmpeg ==
  /\ showFfmpegPrompt
  /\ \E f \in Slots :
       /\ Free(f)
       /\ flows' = [flows EXCEPT ![f] = [IdleFlow EXCEPT !.kind = "ffmpeg",
                                           !.pc = "install", !.st = "req"]]
  /\ showFfmpegPrompt' = FALSE
  /\ status' = StInstallingFfmpeg
  /\ UNCHANGED <<url, format, playlist, savePath, logs, progress, downloading,
                 deps, updating, mountVars, callVars, events, saved, bin, tmp,
                 staging, inst, supVars, histVars>>

\* install_ffmpeg resolves: lines 204-205, up to the await
OnFfmpegInstalled(f) ==
  /\ Await(f, "install")
  /\ status' = StFfmpegInstalled
  /\ flows' = Invoke(f, "refresh")
  /\ UNCHANGED <<url, format, playlist, savePath, logs, progress, downloading,
                 deps, updating, showFfmpegPrompt, mountVars, callVars, events,
                 saved, bin, tmp, staging, inst, supVars, histVars>>

\* a click on Skip: lines 214-216
HandleDeclineFfmpeg ==
  /\ showFfmpegPrompt
  /\ showFfmpegPrompt' = FALSE
  /\ updating' = FALSE
  /\ status' = StFfmpegSkipped
  /\ UNCHANGED <<url, format, playlist, savePath, logs, progress, downloading,
                 deps, mountVars, callVars, events, saved, updVars, supVars,
                 histVars>>

----------------------------------------------------------------------------
(* Back end: ReleaseResolver (spec.md 4.4) *)

\* the locally recorded version of the extraction tool
LocalVersion == bin.ytdlp.ver

\* checkUpdate comparing by version order: available when local is the
\* earlier tag and latest the later one
CheckUpdate_Ordered(local, latest) ==
  [local |-> local, latest |-> latest, download_url |-> UrlOf(latest),
   update_available |-> local = V1 /\ latest = V2]

\* checkUpdate: the local tag is compared with the latest one for equality
CheckUpdate(local, latest) ==
  [local |-> local, latest |-> latest, download_url |-> UrlOf(latest),
   update_available |-> local # Null /\ local # latest]

\* check_ytdlp_update: the release index answers with its latest release
CheckYtdlpUpdate(f) ==
  /\ flows[f].pc = "check" /\ flows[f].st = "req"
  /\ \E latest \in Versions :
       flows' = [flows EXCEPT ![f].st = "ok",
                              ![f].info = CheckUpdate(LocalVersion, latest)]
  /\ UNCHANGED <<uiVars, mountVars, callVars, events, saved, bin, tmp, staging,
                 inst, supVars, histVars>>

\* check_ytdlp_update answers with a VersionInfo whose download_url is null,
\* a value the interface VersionInfo (App.tsx 17-22) admits and
\* handleCheckUpdate tests for (lines 163 and 168)
CheckYtdlpUpdateNoUrl(f) ==
  /\ flows[f].pc = "check" /\ flows[f].st = "req"
  /\ \E latest \in Versions :
       flows' = [flows EXCEPT ![f].st = "ok",
                              ![f].info = [CheckUpdate(LocalVersion, latest)
                                             EXCEPT !.download_url = NoUrl]]
  /\ UNCHANGED <<uiVars, mountVars, callVars, events, saved, bin, tmp, staging,
                 inst, supVars, histVars>>

\* check_ytdlp_update: the network fails or the response is malformed
CheckYtdlpUpdateFailed(f) ==
  /\ flows[f].pc = "check" /\ flows[f].st = "req"
  /\ flows' = [flows EXCEPT ![f].st = "err", ![f].err = "UpdateCheckFailed"]
  /\ UNCHANGED <<uiVars, mountVars, callVars, events, saved, bin, tmp, staging,
                 inst, supVars, histVars>>

\* check_ffmpeg
CheckFfmpeg(f) ==
  /\ flows[f].pc = "ffcheck" /\ flows[f].st = "req"
  /\ flows' = [flows EXCEPT ![f].st = "ok",
                            ![f].ff = [installed |-> Exists(bin.ffmpeg),
                                       version |-> bin.ffmpeg.ver]]
  /\ UNCHANGED <<uiVars, mountVars, callVars, events, saved, bin, tmp, staging,
                 inst, supVars, histVars>>

\* check_dependencies invoked by refreshDeps of a flow
CheckDependenciesFor(f) ==
  /\ flows[f].pc = "refresh" /\ flows[f].st = "req"
  /\ flows' = [flows EXCEPT ![f].st = "ok",
                            ![f].dp = [ytdlp |-> Exists(bin.ytdlp),
                                       ffmpeg |-> Exists(bin.ffmpeg)]]
  /\ UNCHANGED <<uiVars, mountVars, callVars, events, saved, bin, tmp, staging,
                 inst, supVars, histVars>>

----------------------------------------------------------------------------
(* Back end: BinaryInstaller (spec.md 4.5) *)

UpdateLog(n, v) == [type |-> "update-log", job |-> 0,
                    line |-> LogLine("update", 0, n, v)]

\* the flow of slot f asks for an install: update_ytdlp or install_ffmpeg
Wants(f) == flows[f].pc \in {"update", "install"} /\ flows[f].st = "req"

\* the invocation of the installer's owner resolves or rejects
Answer(st, e) == [flows EXCEPT ![inst.owner].st = st, ![inst.owner].err = e]

\* install() while another install is outstanding
InstallRejected(f) ==
  /\ Wants(f)
  /\ inst.kind # "none"
  /\ flows' = [flows EXCEPT ![f].st = "err", ![f].err = "AlreadyRunning"]
  /\ UNCHANGED <<uiVars, mountVars, callVars, events, saved, bin, tmp, staging,
                 inst, supVars, histVars>>

\* install() begins: the temporary file is created empty in the managed
\* directory; the artifact is a single binary for update_ytdlp and an archive
\* for install_ffmpeg
InstallBegin(f) ==
  /\ Wants(f)
  /\ inst.kind = "none"
  /\ LET v == IF flows[f].pc = "update" THEN flows[f].info.download_url.release
              ELSE V1
     IN  /\ inst' = [kind |-> IF flows[f].pc = "update" THEN "single" ELSE "archive",
                     owner |-> f, ver |-> v, phase |-> "download", before |-> bin]
         /\ tmp' = [ver |-> v, n |-> 0]
         /\ events' = Append(events, UpdateLog(1, v))
  /\ flows' = [flows EXCEPT ![f].st = "run"]
  /\ UNCHANGED <<uiVars, mountVars, callVars, saved, bin, staging, supVars,
                 histVars>>

\* a chunk of the artifact written straight to the final path
DownloadChunk_InPlace ==
  /\ inst.phase = "download"
  /\ tmp.n < FileSize
  /\ tmp' = [tmp EXCEPT !.n = @ + 1]
  /\ bin' = IF inst.kind = "single"
            THEN [bin EXCEPT !.ytdlp = tmp']
            ELSE [bin EXCEPT !.ffmpeg = tmp']
  /\ UNCHANGED <<uiVars, mountVars, callVars, events, saved, flows, staging,
                 inst, supVars, histVars>>

\* a chunk of the artifact arrives and is written to the temporary file
DownloadChunk ==
  /\ inst.phase = "download"
  /\ tmp.n < FileSize
  /\ tmp' = [tmp EXCEPT !.n = @ + 1]
  /\ UNCHANGED <<uiVars, mountVars, callVars, events, saved, flows, bin,
                 staging, inst, supVars, histVars>>

\* the network fails mid-download: the temporary file is left orphaned
DownloadInterrupted ==
  /\ inst.phase = "download"
  /\ tmp.n < FileSize
  /\ flows' = Answer("err", "DownloadFailed")
  /\ inst' = NoInst
  /\ UNCHANGED <<uiVars, mountVars, callVars, events, saved, bin, tmp, staging,
                 supVars, histVars>>

\* single binary, download verified complete: the temporary file is renamed
\* over the final path
Replace ==
  /\ inst.kind = "single" /\ inst.phase = "download"
  /\ Complete(tmp)
  /\ bin' = [bin EXCEPT !.ytdlp = tmp]
  /\ tmp' = NoFile
  /\ flows' = Answer("ok", "")
  /\ inst' = NoInst
  /\ UNCHANGED <<uiVars, mountVars, callVars, events, saved, staging, supVars,
                 histVars>>

\* archive, download verified complete: the members are extracted into the
\* staging directory
Extract ==
  /\ inst.kind = "archive" /\ inst.phase = "download"
  /\ Complete(tmp)
  /\ staging' = {"ffmpeg", "ffprobe"}
  /\ inst' = [inst EXCEPT !.phase = "move"]
  /\ UNCHANGED <<uiVars, mountVars, callVars, events, saved, flows, bin, tmp,
                 supVars, histVars>>

\* archive: the next extracted executable is moved over its final path; after
\* the last one the staging directory and the archive are removed
MoveMember ==
  /\ inst.phase = "move"
  /\ LET m == IF "ffmpeg" \in staging THEN "ffmpeg" ELSE "ffprobe" IN
       /\ bin' = [bin EXCEPT ![m] = File(inst.ver)]
       /\ staging' = staging \ {m}
       /\ IF staging' = {}
          THEN /\ flows' = Answer("ok", "")
               /\ inst' = NoInst
               /\ tmp' = NoFile
          ELSE UNCHANGED <<flows, inst, tmp>>
  /\ UNCHANGED <<uiVars, mountVars, callVars, events, saved, supVars, histVars>>

\* the extraction or a replace fails: nothing more is moved, the staging
\* directory is removed
InstallFailed ==
  /\ \/ inst.phase = "move"
     \/ inst.phase = "download" /\ Complete(tmp)
  /\ flows' = Answer("err", "InstallFailed")
  /\ staging' = {}
  /\ inst' = NoInst
  /\ UNCHANGED <<uiVars, mountVars, callVars, events, saved, bin, tmp, supVars,
                 histVars>>

----------------------------------------------------------------------------
(* The update side: the mount effect, handleCheckUpdate, handleInstallFfmpeg, *)
(* handleDeclineFfmpeg, the update-log listener, the resolver and the        *)
(* installer.                                                                *)

NextUpd ==
  \/ LoadSettings \/ CheckDependencies \/ SetDeps
  \/ HandleCheckUpdate \/ HandleInstallFfmpeg \/ HandleDeclineFfmpeg
  \/ OnLog
  \/ \E f \in Slots :
       \/ OnYtInfo(f) \/ OnYtdlpUpdated(f) \/ OnFfInfo(f) \/ OnRefreshed(f)
       \/ OnFlowRejected(f) \/ OnFfmpegInstalled(f)
       \/ CheckYtdlpUpdate(f) \/ CheckYtdlpUpdateFailed(f) \/ CheckFfmpeg(f)
       \/ CheckDependenciesFor(f)
       \/ InstallRejected(f) \/ InstallBegin(f)
  \/ DownloadChunk \/ DownloadInterrupted \/ Replace \/ Extract \/ MoveMember
  \/ InstallFailed

SpecUpd == Init /\ [][NextUpd]_vars

\* The update side with a release index that may also lack the artifact of
\* the platform, so that check_ytdlp_update answers without a download_url.
NextUpdAny == NextUpd \/ \E f \in Slots : CheckYtdlpUpdateNoUrl(f)

SpecUpdAny == Init /\ [][NextUpdAny]_vars

----------------------------------------------------------------------------
(* Properties of the update side *)

Paths == {"ytdlp", "ffmpeg", "ffprobe"}

\* the invocation of the installer's owner ends in this step with error e
InstallEndsWith(e) ==
  /\ inst.kind # "none"
  /\ flows'[inst.owner].st = "err" /\ flows'[inst.owner].err = e

\* C6: every final install path is absent or holds a complete binary, and
\* during an install it holds the binary it held when the install began or the
\* complete new one; an install interrupted mid-download leaves every final
\* path as it was when the install began; an install of the single binary
\* that succeeds leaves the complete new binary at the final path.
C6_AtomicInstall ==
  /\ [](\A p \in Paths : ~Exists(bin[p]) \/ Complete(bin[p]))
  /\ [](inst.kind # "none" =>
          \A p \in Paths : bin[p] \in {inst.before[p], File(inst.ver)})
  /\ [][InstallEndsWith("DownloadFailed") => bin' = inst.before]_vars
  /\ [][(inst.kind = "single" /\ flows'[inst.owner].st = "ok")
          => bin'.ytdlp = File(inst.ver)]_vars

\* C6 witness: an update to a newer release was interrupted mid-download; the
\* partial file lies orphaned at the temporary path and the final path still
\* holds the complete old binary
C6_Witness ==
  \E f \in Slots :
    /\ flows[f].st = "err" /\ flows[f].err = "DownloadFailed"
    /\ inst.kind = "none"
    /\ tmp.ver = V2 /\ tmp.n > 0 /\ ~Complete(tmp)
    /\ bin.ytdlp = File(V1)

\* C9: a VersionInfo returned by check_ytdlp_update carries the local version
\* on disk and a latest version of the index, has update_available exactly
\* when local is present and differs from latest as a string, and always has
\* download_url populated; with local absent update_available is false; local
\* "2024.01.01" with latest "2024.06.10" gives update_available.
C9_CheckUpdate ==
  /\ [](\A f \in Slots :
          Await(f, "check") =>
            LET i == flows[f].info IN
              /\ i.update_available = (i.local # Null /\ i.local # i.latest)
              /\ Populated(i.download_url)
              /\ i.local = Null => ~i.update_available
              /\ (i.local = "2024.01.01" /\ i.latest = "2024.06.10")
                   => i.update_available)
  /\ [][\A f \in Slots :
          (flows[f].pc = "check" /\ flows[f].st = "req" /\ flows'[f].st = "ok")
          => /\ flows'[f].info.local = bin.ytdlp.ver
             /\ flows'[f].info.latest \in Versions]_vars

\* C9 witness: the local version is the later tag and the index reports the
\* earlier one; an update is reported available all the same
C9_Witness ==
  \E f \in Slots :
    /\ Await(f, "check")
    /\ flows[f].info.local = V2 /\ flows[f].info.latest = V1
    /\ flows[f].info.update_available

\* C10: when handleCheckUpdate has handled the rejection of
\* check_ytdlp_update, the status shows the failure, updating is false, the
\* managed-binary directory and the installer are as before, no other
\* activation has changed and this one has ended without invoking anything.
C10_FailedCheckSurfaced ==
  [][\A f \in Slots :
       (flows[f].pc = "check" /\ flows[f].st = "err" /\ flows'[f].st # "err")
       => /\ status' = StUpdateCheckFailed("UpdateCheckFailed")
          /\ updating' = FALSE
          /\ UNCHANGED <<bin, tmp, staging, inst>>
          /\ flows' = [flows EXCEPT ![f] = IdleFlow]]_vars

\* C11: a Check Update flow or an install_ffmpeg flow is started only when no
\* other flow is outstanding; and an update_ytdlp or install_ffmpeg request
\* that reaches the installer while an install is outstanding is rejected with
\* AlreadyRunning and changes nothing of the installer or the binaries.
C11_OneInstallerAction ==
  /\ [][\A f \in Slots :
          (flows[f].kind = "none" /\ flows'[f].kind # "none")
          => \A g \in Slots : flows[g].kind = "none"]_vars
  /\ [][\A f \in Slots :
          (Wants(f) /\ inst.kind # "none" /\ flows'[f].st # flows[f].st)
          => /\ flows'[f].st = "err" /\ flows'[f].err = "AlreadyRunning"
             /\ UNCHANGED <<bin, tmp, staging, inst>>]_vars

----------------------------------------------------------------------------
(* Further properties of the download side *)

\* C12: while the extraction tool is not installed the supervisor stays Idle
\* with no child, kill or completion; a start request handled in that state
\* is rejected with DependencyMissing and changes nothing of the supervisor
\* or the event channel; and when the UI handles that rejection the status
\* shows the error and the downloading flag is false.
C12_DependencyMissing ==
  /\ [](~Exists(bin.ytdlp) =>
          /\ sup = "Idle" /\ child = "none"
          /\ \A j \in Jobs : completions[j] = <<>> /\ kills[j] = 0)
  /\ [][(startReqs # <<>> /\ startReqs' = Tail(startReqs) /\ ~Exists(bin.ytdlp))
          => /\ Len(startErrs') = Len(startErrs) + 1
             /\ startErrs'[Len(startErrs')].err = "DependencyMissing"
             /\ UNCHANGED <<supVars, events>>]_vars
  /\ [][\A i \in DOMAIN startErrs :
          (startErrs[i].err = "DependencyMissing" /\ Consumed(i))
          => /\ status' = StError("DependencyMissing")
             /\ downloading' = FALSE]_vars

\* C12 witness: Download was clicked before check_dependencies had answered,
\* with deps still at its initial value, and the rejection has been shown
C12_Witness ==
  /\ ~Exists(bin.ytdlp)
  /\ deps.ytdlp /\ mountDeps # <<>> /\ Head(mountDeps).st = "req"
  /\ uiJob = 1 /\ startReqs = <<>> /\ startErrs = <<>>
  /\ status = StError("DependencyMissing") /\ ~downloading

\* C13: a job's process tree is killed at most once and the job emits at most
\* one CompletionEvent; a cancel is accepted only for a Running job no cancel
\* was accepted for before; a cancel handled while the job is already
\* Cancelled answers NotRunning and leaves the supervisor, the kills and the
\* event channel alone; and when the UI, showing "Cancelled" for its current
\* job, handles the NotRunning answer of a further cancel, the status still
\* reads "Cancelled".
C13_CancelIdempotent ==
  /\ [](\A j \in Jobs : kills[j] <= 1 /\ Len(completions[j]) <= 1)
  /\ [][cancelAccepted' # cancelAccepted
          => /\ sup = "Running" /\ curJob \notin cancelAccepted
             /\ cancelAccepted' = cancelAccepted \cup {curJob}]_vars
  /\ [][(cancelReqs' = cancelReqs - 1 /\ sup = "Cancelled")
          => /\ cancelResps'[Len(cancelResps')].res = "NotRunning"
             /\ UNCHANGED <<supVars, kills, completions, events>>]_vars
  /\ [][\A i \in DOMAIN cancelResps :
          (/\ cancelResps[i].res = "NotRunning"
           /\ cancelResps' = Without(cancelResps, i)
           /\ uiJob \in okHandled /\ status = StCancelled)
          => status' = StCancelled]_vars

\* C15: whenever the supervisor has a Running job the downloading flag is
\* true; and a download-complete event or a cancel response of a job earlier
\* than the UI's current one changes neither the downloading flag nor the
\* status nor the progress.
C15_LiveJobDownloading ==
  /\ [](sup = "Running" => downloading)
  /\ [][(/\ events # <<>> /\ events' = Tail(events)
         /\ Head(events).type = "download-complete"
         /\ Head(events).job < uiJob)
          => UNCHANGED <<downloading, status, progress>>]_vars
  /\ [][\A i \in DOMAIN cancelResps :
          (/\ cancelResps[i].res = "ok"
           /\ cancelResps' = Without(cancelResps, i)
           /\ cancelResps[i].job < uiJob)
          => UNCHANGED <<downloading, status, progress>>]_vars

\* C18: whenever the downloading flag is true, eventually the supervisor is
\* Idle with the flag false; a job emits at most one CompletionEvent, which
\* is success, a failure code or cancelled, and a rejected start never emits
\* one; and a job leaves Running only because its child has exited or a
\* cancel was accepted, never by a timeout.
C18_JobTerminates ==
  /\ downloading ~> (sup = "Idle" /\ ~downloading)
  /\ [](\A j \in Jobs :
          /\ Len(completions[j]) <= 1
          /\ \A k \in DOMAIN completions[j] :
               completions[j][k] \in {"success", "1", "cancelled"})
  /\ [](\A i \in DOMAIN startErrs : completions[startErrs[i].job] = <<>>)
  /\ [][(sup = "Running" /\ sup' # "Running")
          => (child \in {"exit0", "exit1"} \/ cancelAccepted' # cancelAccepted)]_vars

\* C18 witness: a second job, started after the first had ended, has exited
\* by itself with a failure code, the UI has handled its completion, and the
\* slot is free again
C18_Witness ==
  /\ uiJob = 2 /\ completions[2] = <<"1">> /\ 2 \in doneHandled
  /\ sup = "Idle" /\ ~downloading /\ events = <<>>

----------------------------------------------------------------------------
(* Further properties of the update side *)

\* C14: when check_ytdlp_update has resolved, the flow invokes update_ytdlp
\* exactly if download_url is present and local is absent or
\* update_available is true, and invokes check_ffmpeg otherwise; with local
\* present and no update available it appends "yt-dlp <local> is up to date"
\* to the log; update_ytdlp is invoked at no other point of a flow, and a flow
\* passes that point once.
C14_UpdateInvokedOnce ==
  /\ [][\A f \in Slots :
          (Await(f, "check") /\ flows'[f] # flows[f])
          => LET i == flows[f].info
                 wanted == Populated(i.download_url)
                           /\ (i.local = Null \/ i.update_available)
             IN  /\ flows'[f].st = "req"
                 /\ flows'[f].pc = IF wanted THEN "update" ELSE "ffcheck"
                 /\ (i.local # Null /\ ~i.update_available)
                      => logs' = Append(logs, LogLine("yt-dlp is up to date",
                                                      0, 0, i.local))]_vars
  /\ [][\A f \in Slots :
          (flows'[f].pc = "update" /\ flows[f].pc # "update")
          => Await(f, "check")]_vars
  /\ [][\A f \in Slots :
          (flows'[f].pc = "check" /\ flows[f].pc # "check")
          => flows[f].kind = "none"]_vars

\* C14 witness: local was absent and download_url populated, update_ytdlp was
\* invoked and has installed the latest release, and the flow has moved on to
\* check_ffmpeg
C14_Witness ==
  \E f \in Slots :
    /\ flows[f].kind = "check" /\ flows[f].pc = "ffcheck"
    /\ flows[f].info.local = Null /\ Populated(flows[f].info.download_url)
    /\ bin.ytdlp = File(flows[f].info.latest)

\* C16: updating is true whenever the ffmpeg prompt is displayed and whenever
\* an install_ffmpeg call is outstanding; and updating turns false only when
\* a Check Update flow ends with no prompt displayed, when Skip is clicked, or
\* when an install_ffmpeg flow ends.
C16_UpdatingDuringFlow ==
  /\ [](showFfmpegPrompt => updating)
  /\ [](\A f \in Slots : flows[f].pc = "install" => updating)
  /\ [][(updating /\ ~updating')
          => \/ \E f \in Slots : /\ flows[f].kind = "check"
                                 /\ flows'[f].kind = "none"
                                 /\ ~showFfmpegPrompt'
             \/ \E f \in Slots : flows[f].kind = "ffmpeg" /\ flows'[f].kind = "none"
             \/ (showFfmpegPrompt /\ status' = StFfmpegSkipped)]_vars

\* C17: when a Check Update flow sets the status to "Everything is up to
\* date", the extraction tool is installed in the latest version the flow's
\* check reported, and the transcoding tool is installed.
C17_UpToDateOnlyIfCurrent ==
  [][\A f \in Slots :
       (Await(f, "ffcheck") /\ flows'[f].pc = "refresh" /\ status' = StUpToDate)
       => /\ Exists(bin.ytdlp)
          /\ bin.ytdlp.ver = flows[f].info.latest
          /\ Exists(bin.ffmpeg)]_vars

====
